---- MODULE Spec2Model ----
(***************************************************************************)
(* Job-Agent: the browser-apply workflow (browser_apply.py) and the batch  *)
(* loop that drives it (scheduler.py), with the job source (sheets.py),    *)
(* the audit log (database.py) and the notifier (gmail_notify.py) as       *)
(* collaborators whose calls either succeed or raise.                      *)
(*                                                                         *)
(* A URL is a sequence of fragments; str.lower() maps every fragment to    *)
(* its lower-case form and `needle in url` holds when some lower-cased     *)
(* fragment is the needle.  A note is the sequence of its words.           *)
(***************************************************************************)
EXTENDS Naturals, Integers, Sequences, FiniteSets, TLC

\* ---------------------------------------------------------------- bounds
MaxJobs == 3          \* rows of the sheet
MaxUrlLen == 2        \* fragments of a URL handed to a direct apply() call
MaxTabs == 2          \* pages a browsing context can hold
MaxRunNext == 1       \* next pages a site's form shows during a batch run
                      \* (a form met by a direct apply() call is not limited)
MaxRuns == 2          \* workflow runs one process makes under its scheduler

\* the values of MAX_APPLICATIONS_PER_RUN tried (config.py allows 1..50):
\* below, at and above the number of pending rows of a sheet
RunCaps == {1, 2, 3}

\* the values of MAX_STATUS_CHECKS_PER_RUN tried (config.py allows 1..100)
StatusCaps == {1, 2, 3}

\* ------------------------------------------------------ program constants
max_steps == 10

Platforms == {"linkedin", "indeed", "generic"}

\* PLATFORM_CONFIG: the fields the control flow reads
PLATFORM_CONFIG ==
  [p \in {"linkedin", "indeed"} |->
     IF p = "linkedin"
     THEN [platform_name |-> "linkedin",
           checkpoint_patterns |-> {"checkpoint", "challenge"},
           applied_note |-> <<"Submitted", "via", "LinkedIn", "Easy", "Apply">>,
           headless |-> FALSE,
           two_step_login |-> FALSE]
     ELSE [platform_name |-> "indeed",
           checkpoint_patterns |-> {},
           applied_note |-> <<"Submitted", "via", "Indeed", "Apply">>,
           headless |-> FALSE,
           two_step_login |-> TRUE]]

\* ------------------------------------------------------------- URL model
Fragments == {"linkedin.com", "LinkedIn.COM", "indeed.com", "INDEED.com", "greenhouse.io"}

\* str.lower() on one fragment
LowerFragment(f) ==
  CASE f = "LinkedIn.COM" -> "linkedin.com"
    [] f = "INDEED.com" -> "indeed.com"
    [] OTHER -> f

\* str.lower() on a URL
Lower(url) == [i \in 1..Len(url) |-> LowerFragment(url[i])]

\* `needle in s`
Contains(s, needle) == \E i \in 1..Len(s) : s[i] = needle

RECURSIVE SeqsUpTo(_, _)
SeqsUpTo(S, n) ==
  IF n = 0 THEN {<<>>}
  ELSE LET shorter == SeqsUpTo(S, n - 1)
       IN shorter \cup {Append(s, x) : s \in {t \in shorter : Len(t) = n - 1}, x \in S}

\* a job dict that has no Job_URL key
NoKey == <<"<no Job_URL>">>

\* URLs a caller can hand to apply() directly; NoKey is a job dict without Job_URL
DirectUrls == SeqsUpTo(Fragments, MaxUrlLen) \cup {NoKey}

\* URLs of the sheet rows of a run
SheetUrls == {<<"LinkedIn.COM">>, <<"indeed.com">>, <<"greenhouse.io">>}

\* job.get("Job_URL", "")
JobUrl(job) == IF job.Job_URL = NoKey THEN <<>> ELSE job.Job_URL

\* --------------------------------------------------------- classification
\* a classification that tests indeed.com first (used to probe the claims)
ClassifyApplyIndeedFirst(job) ==
  LET url == Lower(JobUrl(job))
  IN IF Contains(url, "indeed.com") THEN "indeed"
     ELSE IF Contains(url, "linkedin.com") THEN "linkedin"
     ELSE "generic"

\* apply(): url = job.get("Job_URL", "").lower(); if/elif/else
ClassifyApply(job) ==
  LET url == Lower(JobUrl(job))
  IN IF Contains(url, "linkedin.com") THEN "linkedin"
     ELSE IF Contains(url, "indeed.com") THEN "indeed"
     ELSE "generic"

\* apply_to_jobs(): the same test, written a second time in the scheduler
ClassifyGroup(job) ==
  LET url == Lower(JobUrl(job))
  IN IF Contains(url, "linkedin.com") THEN "linkedin"
     ELSE IF Contains(url, "indeed.com") THEN "indeed"
     ELSE "generic"

\* ---------------------------------------------------------------- results
NoId == <<>>
_timestamp_id == <<"AUTO_", "utcnow">>

\* a Result builder that gives every Result a fresh id
_make_result_always_id(success, application_id, notes, platform) ==
  [status |-> IF success THEN "Applied" ELSE "Failed",
   application_id |-> _timestamp_id,
   notes |-> notes,
   platform |-> platform]

_make_result(success, application_id, notes, platform) ==
  [status |-> IF success THEN "Applied" ELSE "Failed",
   application_id |-> application_id,
   notes |-> notes,
   platform |-> platform]

NoResult == [status |-> "none", application_id |-> NoId, notes |-> <<>>, platform |-> "none"]

UnsupportedNote == <<"Unsupported", "platform", "apply", "manually", "via", "Job_URL">>
DryRunNote == <<"Dry", "run", "no", "actual", "application", "sent">>
NoApplyButtonNote == <<"No", "apply", "button", "found", "may", "require", "external", "application">>
StuckNote == <<"Could", "not", "complete", "apply", "form", "check", "job", "manually">>
TimeoutNote == <<"Timeout:", "e">>
ErrorNote == <<"Error:", "e">>


\* ------------------------------------------------------------------ state
VARIABLES
  DRY_RUN,                   \* config.DRY_RUN
  MAX_APPLICATIONS_PER_RUN,  \* config.MAX_APPLICATIONS_PER_RUN
  MAX_STATUS_CHECKS_PER_RUN, \* config.MAX_STATUS_CHECKS_PER_RUN
  mode,          \* "run": apply_to_jobs() is called; "direct": apply(job) is
                 \* called; "status": check_statuses() is called
  runs,          \* workflow runs this process has finished
  submitted,     \* sheet rows of the jobs that got a success Result with dry-run
                 \* off in a run this process has finished
  workers,       \* under the scheduler: per scheduled job, what the pool
                 \* thread running it is doing ("idle": no instance runs)
                 \* and the job dicts it has still to work on
  sheet,         \* data rows of the Jobs sheet; data row r is sheet row r + 1
  pending_jobs,  \* job dicts: read_jobs("Not Applied") or the dict handed to apply()
  batch,         \* number of jobs in pending_jobs[:MAX_APPLICATIONS_PER_RUN]
  by_platform,   \* groups in insertion order: <<[platform, jobs], ...>>
  gi,            \* position of the group being processed in by_platform
  ji,            \* position of the job being processed in its group
  pc,            \* control position
  frame,         \* who runs _fill_and_submit: "apply", "session" or "none"
  pending,       \* exception in flight: "none"; "timeout" or "error" raised by
                 \* login, navigation or form; "close_timeout", "close_error",
                 \* "launch_error", "sheet_error", "log_error"; "cancel"
  browser,       \* the browser of the current session: "none", "open", "closed"
  launches,      \* browsers launched so far, per platform
  launched,      \* the launch calls made so far: platform logged in to, headless flag
  logins,        \* _login calls so far, per platform
  result,        \* the local `result` of the attempt in progress
  results,       \* per job: the Results handed back to the caller, in order
  attempted,     \* jobs in the order in which their apply attempts began
  step,          \* iteration of the form loop (1..max_steps), 0 outside it
  nextClicks,    \* next clicks of the attempt in progress
  submitClicks,  \* submit clicks of the attempt in progress
  applySeen,     \* what the visibility test of the apply button found in the
                 \* attempt in progress: "none" (not tested), "visible", "absent"
  applyClicked,  \* whether the attempt in progress clicked the apply button
  seen,          \* the controls the most recent form step found when it
                 \* tested submit and next (checked = FALSE: not tested),
                 \* with what it had found before: upload (an upload input
                 \* is present and the resume file exists), area (a text
                 \* area is visible)
  did,           \* the interactions of the most recent form step, in order
  landed,        \* page.url while _login is at work or has just returned:
                 \* "none" outside; after the submission a LandingUrls value;
                 \* "resolved" when the checkpoint wait has seen its URL
  pages,         \* context.pages: whether each open tab shows the flow of the
                 \* job being attempted ("job") or anything else ("other")
  page,          \* index in pages of the driver's working page
  auditLog,      \* rows appended by database.log_application
  notifier,      \* calls of gmail_notify.send_application_email
  checks,        \* status-check run: the check results returned by
                 \* check_job_status, in order: [job, new_status, performed]
  sheetCalls,    \* calls of sheets.mark_status_changed: [row, status, date]
  status_changes,\* rows appended by database.log_status_change
  status_mails   \* calls of gmail_notify.send_status_update_email

vars == <<DRY_RUN, MAX_APPLICATIONS_PER_RUN, MAX_STATUS_CHECKS_PER_RUN, mode, runs, submitted,
          workers, sheet, pending_jobs, batch,
          by_platform, gi, ji, pc, frame, pending, browser, launches, launched, logins,
          result, results, attempted, step, nextClicks, submitClicks,
          applySeen, applyClicked, seen, did, landed, pages, page, auditLog, notifier,
          checks, sheetCalls, status_changes, status_mails>>

config == <<DRY_RUN, MAX_APPLICATIONS_PER_RUN, MAX_STATUS_CHECKS_PER_RUN, mode, runs,
            submitted, workers>>
formVars == <<step, nextClicks, submitClicks, applySeen, applyClicked, seen, did,
              landed>>

\* no form step has tested the controls
NotChecked == [checked |-> FALSE, submit |-> FALSE, next |-> FALSE,
               upload |-> FALSE, area |-> FALSE]

\* the locals of an attempt that has not begun its work, or is over
ResetForm ==
  /\ step' = 0 /\ nextClicks' = 0 /\ submitClicks' = 0
  /\ applySeen' = "none" /\ applyClicked' = FALSE
  /\ seen' = NotChecked /\ did' = <<>>
  /\ landed' = "none"
tabVars == <<pages, page>>
statusVars == <<checks, sheetCalls, status_changes, status_mails>>
collab == <<sheet, auditLog, notifier, statusVars>>
loopVars == <<pending_jobs, batch, by_platform, gi, ji>>

SheetStatuses == {"Not Applied", "Applied"}

\* rows that are already Applied are no part of a run; they all carry this URL
AppliedUrl == <<"greenhouse.io">>

Min(a, b) == IF a < b THEN a ELSE b

\* the job dict the current attempt works on
CurIndex == IF mode = "direct" THEN 1
            ELSE IF mode = "status" THEN ji
            ELSE by_platform[gi].jobs[ji]
CurJob == pending_jobs[CurIndex]
CurPlatform == by_platform[gi].platform

\* build_scheduler: the ids of the two jobs added to the scheduler
SchedJobs == {"apply_to_jobs", "check_statuses"}

\* no instance of a scheduled job is running
Idle == [at |-> "idle", todo |-> <<>>]

\* the state of the process before its entry point is called
InitLocals ==
  /\ runs = 0
  /\ submitted = {}
  /\ workers = [j \in SchedJobs |-> Idle]
  /\ batch = 0
  /\ by_platform = <<>>
  /\ gi = 0
  /\ ji = 0
  /\ pc = "start"
  /\ frame = "none"
  /\ pending = "none"
  /\ browser = "none"
  /\ launches = [p \in Platforms |-> 0]
  /\ launched = {}
  /\ logins = [p \in Platforms |-> 0]
  /\ result = NoResult
  /\ results = [k \in 1..MaxJobs + 1 |-> <<>>]
  /\ attempted = <<>>
  /\ step = 0
  /\ nextClicks = 0
  /\ submitClicks = 0
  /\ applySeen = "none"
  /\ applyClicked = FALSE
  /\ seen = NotChecked
  /\ did = <<>>
  /\ landed = "none"
  /\ pages = <<>>
  /\ page = 0
  /\ auditLog = <<>>
  /\ notifier = <<>>
  /\ checks = <<>>
  /\ sheetCalls = <<>>
  /\ status_changes = <<>>
  /\ status_mails = <<>>

\* the sheets of at most MaxJobs data rows; the rows whose Status is `idle`
\* are no part of the run and all carry AppliedUrl
Sheets(idle) ==
  {sh \in UNION {[1..n -> [Job_URL : SheetUrls, Status : SheetStatuses,
                           Last_Checked : {""}]] : n \in 0..MaxJobs} :
     \A r \in 1..Len(sh) : sh[r].Status = idle => sh[r].Job_URL = AppliedUrl}

Init ==
  /\ DRY_RUN \in BOOLEAN
  /\ MAX_STATUS_CHECKS_PER_RUN = 1
  /\ \/ /\ mode = "run"
        /\ MAX_APPLICATIONS_PER_RUN \in RunCaps
        /\ sheet \in Sheets("Applied")
        /\ pending_jobs = <<>>
     \/ /\ mode = "direct"
        /\ MAX_APPLICATIONS_PER_RUN = 1
        /\ sheet = <<>>
        /\ pending_jobs \in {<<[Job_URL |-> u, Status |-> "Not Applied", _row_index |-> 2, platform |-> ""]>> : u \in DirectUrls}
  /\ InitLocals


\* ------------------------------------------------------------ job source
\* a read_jobs that numbers the rows after it has filtered them
read_jobs_numbered_late(status_filter) ==
  LET kept == SelectSeq(sheet, LAMBDA row : row.Status = status_filter)
  IN [r \in 1..Len(kept) |->
        [Job_URL |-> kept[r].Job_URL, Status |-> kept[r].Status,
         _row_index |-> r + 1, platform |-> ""]]

\* a read_jobs that returns every row, whatever its status
read_jobs_unfiltered(status_filter) ==
  [r \in 1..Len(sheet) |->
     [Job_URL |-> sheet[r].Job_URL, Status |-> sheet[r].Status,
      _row_index |-> r + 1, platform |-> ""]]

\* sheets.read_jobs: one dict per data row, _row_index from 2, then the filter
read_jobs(status_filter) ==
  LET jobs == [r \in 1..Len(sheet) |->
                 [Job_URL |-> sheet[r].Job_URL, Status |-> sheet[r].Status,
                  _row_index |-> r + 1, platform |-> ""]]
  IN SelectSeq(jobs, LAMBDA j : j.Status = status_filter)

\* datetime.utcnow() as a date string
utcnow == "utcnow"

\* a writeback that does not look at the dry-run flag
mark_applied_always(sh, job) ==
  [sh EXCEPT ![job._row_index - 1].Status = "Applied",
             ![job._row_index - 1].Last_Checked = utcnow]

\* sheets.update_job_row under mark_applied: column D of the row becomes
\* "Applied", column F (Last_Checked) the applied date
mark_applied(sh, job) ==
  IF DRY_RUN THEN sh
  ELSE [sh EXCEPT ![job._row_index - 1].Status = "Applied",
                  ![job._row_index - 1].Last_Checked = utcnow]

\* a grouping that opens a new group for every job
GroupAppendNew(groups, p, k) == Append(groups, [platform |-> p, jobs |-> <<k>>])

\* a grouping that puts a job at the front of its platform's list
GroupAppendFront(groups, p, k) ==
  IF \E i \in 1..Len(groups) : groups[i].platform = p
  THEN [i \in 1..Len(groups) |->
          IF groups[i].platform = p
          THEN [groups[i] EXCEPT !.jobs = <<k>> \o @]
          ELSE groups[i]]
  ELSE Append(groups, [platform |-> p, jobs |-> <<k>>])

\* by_platform[platform].append(job) on a dict that keeps insertion order
GroupAppend(groups, p, k) ==
  IF \E i \in 1..Len(groups) : groups[i].platform = p
  THEN [i \in 1..Len(groups) |->
          IF groups[i].platform = p
          THEN [groups[i] EXCEPT !.jobs = Append(@, k)]
          ELSE groups[i]]
  ELSE Append(groups, [platform |-> p, jobs |-> <<k>>])

\* a grouping loop that walks the batch from its last job to its first
RECURSIVE GroupBatchReversed(_, _, _, _)
GroupBatchReversed(jobs, k, n, groups) ==
  IF k > n THEN groups
  ELSE GroupBatchReversed(jobs, k, n - 1, GroupAppend(groups, ClassifyGroup(jobs[n]), n))

\* the grouping loop of apply_to_jobs over batch positions k..n
RECURSIVE GroupBatch(_, _, _, _)
GroupBatch(jobs, k, n, groups) ==
  IF k > n THEN groups
  ELSE GroupBatch(jobs, k + 1, n, GroupAppend(groups, ClassifyGroup(jobs[k]), k))

\* ------------------------------------------------------- scheduler: a run
\* apply_to_jobs up to the first group: read, cap, group
apply_to_jobs ==
  /\ pc = "start"
  /\ mode = "run"
  /\ LET pj == read_jobs("Not Applied")
         n == Min(Len(pj), MAX_APPLICATIONS_PER_RUN)
     IN /\ pending_jobs' = pj
        /\ batch' = n
        /\ by_platform' = GroupBatch(pj, 1, n, <<>>)
        /\ IF Len(pj) = 0
           THEN pc' = "done" /\ gi' = 0
           ELSE pc' = "group" /\ gi' = 1
  /\ ji' = 0
  /\ UNCHANGED <<config, collab, frame, pending, browser, launches, launched, logins,
                 result, results, attempted, formVars, tabVars>>

\* `for platform, jobs in by_platform.items()`: loop exit
apply_to_jobs_done ==
  /\ pc = "group"
  /\ gi > Len(by_platform)
  /\ pc' = "done"
  /\ UNCHANGED <<config, collab, loopVars, frame, pending, browser, launches, launched,
                 logins, result, results, attempted, formVars, tabVars>>

\* a test that forgets the dry-run flag
UsesApplyGenericOnly(platform) == platform = "generic"

\* _apply_platform_batch line 72: the group goes through apply()
UsesApply(platform) == platform = "generic" \/ DRY_RUN

\* _apply_platform_batch entry: generic or dry-run go through apply(),
\* anything else opens the platform's session
_apply_platform_batch ==
  /\ pc = "group"
  /\ gi <= Len(by_platform)
  /\ ji' = 1
  /\ IF UsesApply(CurPlatform)
     THEN pc' = "apply" /\ frame' = "apply"
     ELSE pc' = "s_launch" /\ frame' = "session"
  /\ UNCHANGED <<config, collab, pending_jobs, batch, by_platform, gi, pending,
                 browser, launches, launched, logins, result, results, attempted,
                 formVars, tabVars>>

\* a caller hands one job dict to apply()
direct_call ==
  /\ pc = "start"
  /\ mode = "direct"
  /\ pc' = "apply"
  /\ frame' = "apply"
  /\ batch' = 1
  /\ UNCHANGED <<config, collab, pending_jobs, by_platform, gi, ji, pending,
                 browser, launches, launched, logins, result, results, attempted,
                 formVars, tabVars>>

\* ----------------------------------------------------------- apply(): routing
\* where a Result returned by apply() goes
ReturnFromApply(r) ==
  /\ results' = [results EXCEPT ![CurIndex] = Append(@, r)]
  /\ pc' = IF mode = "direct" THEN "done" ELSE "process"

\* a routing that tests the dry-run flag before the platform
ShortCircuitDryFirst(platform) ==
  IF DRY_RUN THEN _make_result(TRUE, _timestamp_id, DryRunNote, platform)
  ELSE IF platform = "generic"
  THEN _make_result(FALSE, NoId, UnsupportedNote, "generic")
  ELSE NoResult

\* a dry-run Result built without an application id
ShortCircuitNoId(platform) ==
  IF platform = "generic"
  THEN _make_result(FALSE, NoId, UnsupportedNote, "generic")
  ELSE IF DRY_RUN THEN _make_result(TRUE, NoId, DryRunNote, platform)
  ELSE NoResult

\* apply() lines 240-250: the Result apply() returns without a browser
\* (generic first, then dry-run), NoResult when it goes on to the browser
ShortCircuit(platform) ==
  IF platform = "generic"
  THEN _make_result(FALSE, NoId, UnsupportedNote, "generic")
  ELSE IF DRY_RUN THEN _make_result(TRUE, _timestamp_id, DryRunNote, platform)
  ELSE NoResult

\* apply() lines 233-250: classify, write job["platform"], short-circuit
apply_route ==
  /\ pc = "apply"
  /\ LET platform == ClassifyApply(CurJob)
     IN /\ pending_jobs' = [pending_jobs EXCEPT ![CurIndex].platform = platform]
        /\ attempted' = Append(attempted, CurIndex)
        /\ IF ShortCircuit(platform) # NoResult
           THEN ReturnFromApply(ShortCircuit(platform))
           ELSE /\ pc' = "a_launch"
                /\ UNCHANGED results
  /\ result' = NoResult
  /\ ResetForm
  /\ UNCHANGED <<config, collab, batch, by_platform, gi, ji, frame, pending,
                 browser, launches, launched, logins, tabVars>>


\* ------------------------------------------------------- browser plumbing
Outcomes == {"ok", "timeout", "error"}
Exceptions == {"timeout", "error"}

\* the platform whose PLATFORM_CONFIG entry the attempt in progress uses
AttemptPlatform == IF frame = "apply" THEN CurJob.platform ELSE CurPlatform

ExceptionNote(kind) == IF kind = "timeout" THEN TimeoutNote ELSE ErrorNote

\* what the browser is after browser.close(): a close that raises may or may
\* not have taken the browser down
AfterClose(outcome) == IF outcome = "ok" THEN {"closed"} ELSE {"open", "closed"}

\* leaving `with sync_playwright() as p:` without stopping the driver
PlaywrightExitKeeps(b) == b

\* leaving `with sync_playwright() as p:` stops the driver, which takes down
\* every browser it launched
PlaywrightExit(b) == IF b = "open" THEN "closed" ELSE b

\* p.chromium.launch(headless=...): the record of one launch call, with the
\* platform the browser is then logged in to
Launch(platform, headless) == [platform |-> platform, headless |-> headless]

\* status_tracker.py line 81: _check_linkedin launches with headless=True
StatusCheckHeadless == TRUE

\* a session scope that swallows the exception and hands the session out again
PropagateSwallowed(kind) == "s_job"

\* how an exception that leaves the program ends the run
Propagate(kind) == IF kind = "cancel" THEN "cancelled" ELSE "raised"

\* ------------------------------------------------- apply(): one-shot browser
\* apply() lines 252-255: launch, new context, new page (outside the try)
a_launch ==
  /\ pc = "a_launch"
  /\ \E outcome \in {"ok", "error"} :
       IF outcome = "ok"
       THEN /\ browser' = "open"
            /\ launches' = [launches EXCEPT ![AttemptPlatform] = @ + 1]
            /\ launched' = launched \cup {Launch(AttemptPlatform, PLATFORM_CONFIG[AttemptPlatform].headless)}
            /\ pages' = <<"other">>
            /\ page' = 1
            /\ pc' = "a_login"
            /\ UNCHANGED pending
       ELSE /\ pending' = "launch_error"
            /\ pc' = Propagate("launch_error")
            /\ UNCHANGED <<browser, launches, launched, pages, page>>
  /\ UNCHANGED <<config, collab, loopVars, frame, logins, result, results,
                 attempted, formVars>>

\* the URL the login submission lands on, by what it contains: one of the
\* checkpoint patterns, or neither ("feed")
LandingUrls == {"feed", "checkpoint", "challenge"}

\* a login that waits on any URL that looks like a checkpoint, whatever the
\* profile declares
CheckpointHitAnyProfile(cfg, url) == url \in {"checkpoint", "challenge"}

\* _login lines 125-126: `if cfg["checkpoint_patterns"]:` and
\* `any(p in page.url for p in cfg["checkpoint_patterns"])`
CheckpointHit(cfg, url) ==
  cfg.checkpoint_patterns # {} /\ url \in cfg.checkpoint_patterns

\* the form steps of a login leave these alone
formLocals == <<step, nextClicks, submitClicks, applySeen, applyClicked, seen, did>>

\* apply() line 257: _login inside the try; _login lines 107-126: the login
\* page, the credentials, the submission, the wait for network idle, the
\* test of the URL it landed on
a_login ==
  /\ pc = "a_login"
  /\ logins' = [logins EXCEPT ![AttemptPlatform] = @ + 1]
  /\ \E outcome \in Outcomes, url \in LandingUrls :
       IF outcome = "ok"
       THEN /\ landed' = url
            /\ pc' = IF CheckpointHit(PLATFORM_CONFIG[AttemptPlatform], url)
                     THEN "a_checkpoint" ELSE "goto"
       ELSE /\ url = "feed"
            /\ landed' = "none"
            /\ pc' = "a_except_" \o outcome
  /\ UNCHANGED <<config, collab, loopVars, frame, pending, browser, launches, launched,
                 result, results, attempted, formLocals, tabVars>>

\* _login lines 127-133 under apply(): page.wait_for_url(checkpoint_wait_url,
\* timeout=120000) returns when the operator has resolved the challenge, or
\* raises (the deadline has passed; the page broke)
a_checkpoint ==
  /\ pc = "a_checkpoint"
  /\ \E outcome \in Outcomes :
       IF outcome = "ok"
       THEN landed' = "resolved" /\ pc' = "goto"
       ELSE landed' = "none" /\ pc' = "a_except_" \o outcome
  /\ UNCHANGED <<config, collab, loopVars, frame, pending, browser, launches, launched,
                 logins, result, results, attempted, formLocals, tabVars>>

\* a closed browser holds no page
NoTabs == pages' = <<>> /\ page' = 0

\* apply() lines 259-260: browser.close() inside the try, then return result;
\* _fill_and_submit has returned and its locals are gone
a_close ==
  /\ pc = "a_close"
  /\ \E outcome \in Outcomes :
       IF outcome = "ok"
       THEN /\ browser' = PlaywrightExit("closed")
            /\ ReturnFromApply(result)
            /\ NoTabs
       ELSE /\ browser' \in AfterClose(outcome)
            /\ pc' = "a_except_" \o outcome
            /\ UNCHANGED <<results, tabVars>>
  /\ ResetForm
  /\ UNCHANGED <<config, collab, loopVars, frame, pending, launches, launched, logins,
                 result, attempted>>

\* apply() lines 261-264: except PWTimeout: browser.close() unguarded
a_except_timeout ==
  /\ pc = "a_except_timeout"
  /\ \E outcome \in Outcomes :
       IF outcome = "ok"
       THEN /\ browser' = PlaywrightExit("closed")
            /\ ReturnFromApply(_make_result(FALSE, NoId, TimeoutNote, AttemptPlatform))
            /\ UNCHANGED pending
       ELSE /\ \E b \in AfterClose(outcome) : browser' = PlaywrightExit(b)
            /\ pending' = "close_" \o outcome
            /\ pc' = Propagate(outcome)
            /\ UNCHANGED results
  /\ ResetForm
  /\ NoTabs
  /\ UNCHANGED <<config, collab, loopVars, frame, launches, launched, logins, result,
                 attempted>>

\* apply() lines 265-271: except Exception: browser.close() guarded
a_except_error ==
  /\ pc = "a_except_error"
  /\ \E outcome \in Outcomes :
       \E b \in AfterClose(outcome) : browser' = PlaywrightExit(b)
  /\ ReturnFromApply(_make_result(FALSE, NoId, ErrorNote, AttemptPlatform))
  /\ ResetForm
  /\ NoTabs
  /\ UNCHANGED <<config, collab, loopVars, frame, pending, launches, launched, logins,
                 result, attempted>>


\* ------------------------------------- platform_session + apply_with_session
\* platform_session lines 88-91: launch, new context, new page (outside the try)
s_launch ==
  /\ pc = "s_launch"
  /\ \E outcome \in {"ok", "error"} :
       IF outcome = "ok"
       THEN /\ browser' = "open"
            /\ launches' = [launches EXCEPT ![CurPlatform] = @ + 1]
            /\ launched' = launched \cup {Launch(CurPlatform, PLATFORM_CONFIG[CurPlatform].headless)}
            /\ pages' = <<"other">>
            /\ page' = 1
            /\ pc' = "s_login"
            /\ UNCHANGED pending
       ELSE /\ pending' = "launch_error"
            /\ pc' = Propagate("launch_error")
            /\ UNCHANGED <<browser, launches, launched, pages, page>>
  /\ UNCHANGED <<config, collab, loopVars, frame, logins, result, results,
                 attempted, formVars>>

\* platform_session line 94: _login inside try/finally, no except clause
s_login ==
  /\ pc = "s_login"
  /\ logins' = [logins EXCEPT ![CurPlatform] = @ + 1]
  /\ \E outcome \in Outcomes, url \in LandingUrls :
       IF outcome = "ok"
       THEN /\ landed' = url
            /\ pc' = IF CheckpointHit(PLATFORM_CONFIG[CurPlatform], url)
                     THEN "s_checkpoint" ELSE "s_job"
            /\ UNCHANGED pending
       ELSE /\ url = "feed"
            /\ landed' = "none"
            /\ pc' = "s_close" /\ pending' = outcome
  /\ UNCHANGED <<config, collab, loopVars, frame, browser, launches, launched, result,
                 results, attempted, formLocals, tabVars>>

\* _login lines 127-133 under platform_session: the checkpoint wait
s_checkpoint ==
  /\ pc = "s_checkpoint"
  /\ \E outcome \in Outcomes :
       IF outcome = "ok"
       THEN landed' = "resolved" /\ pc' = "s_job" /\ UNCHANGED pending
       ELSE landed' = "none" /\ pc' = "s_close" /\ pending' = outcome
  /\ UNCHANGED <<config, collab, loopVars, frame, browser, launches, launched, logins,
                 result, results, attempted, formLocals, tabVars>>

\* _apply_platform_batch lines 84-90: the next job of the group enters
\* apply_with_session, which works on session["page"]
s_apply_with_session ==
  /\ pc = "s_job"
  /\ attempted' = Append(attempted, CurIndex)
  /\ result' = NoResult
  /\ ResetForm
  /\ page' = 1
  /\ pc' = "goto"
  /\ UNCHANGED <<config, collab, loopVars, frame, pending, browser, launches, launched,
                 logins, results, pages>>

\* platform_session lines 96-100: finally: browser.close() with the failure
\* swallowed, then the exit of `with sync_playwright()`; the exception in
\* flight, if any, goes on to the caller
s_close ==
  /\ pc = "s_close"
  /\ \E outcome \in Outcomes :
       \E b \in AfterClose(outcome) : browser' = PlaywrightExit(b)
  /\ IF pending = "none"
     THEN /\ gi' = gi + 1
          /\ ji' = 0
          /\ pc' = "group"
     ELSE /\ pc' = Propagate(pending)
          /\ UNCHANGED <<gi, ji>>
  /\ NoTabs
  /\ UNCHANGED <<config, collab, pending_jobs, batch, by_platform, frame,
                 pending, launches, launched, logins, result, results, attempted,
                 formVars>>

\* ------------------------------------------------------- _fill_and_submit
\* _fill_and_submit returns r to apply() or to apply_with_session
FillReturn(r) ==
  /\ result' = r
  /\ IF frame = "apply"
     THEN pc' = "a_close" /\ UNCHANGED results
     ELSE /\ results' = [results EXCEPT ![CurIndex] = Append(@, r)]
          /\ pc' = "process"

\* _fill_and_submit raises: apply() goes to its handler, apply_with_session
\* (lines 216-221) turns the exception into a failure Result
FillRaise(kind) ==
  /\ UNCHANGED result
  /\ IF frame = "apply"
     THEN pc' = "a_except_" \o kind /\ UNCHANGED results
     ELSE /\ results' = [results EXCEPT ![CurIndex] =
                           Append(@, _make_result(FALSE, NoId, ExceptionNote(kind), AttemptPlatform))]
          /\ pc' = "process"

\* lines 148-149: page.goto(job_url), wait for network idle
fill_goto ==
  /\ pc = "goto"
  /\ \E outcome \in Outcomes :
       IF outcome = "ok"
       THEN /\ pages' = [pages EXCEPT ![page] = "job"]
            /\ pc' = "applybtn"
            /\ UNCHANGED <<result, results>>
       ELSE /\ FillRaise(outcome)
            /\ UNCHANGED pages
  /\ landed' = "none"
  /\ UNCHANGED <<config, collab, loopVars, frame, pending, browser, launches, launched,
                 logins, attempted, formLocals, page>>

\* a driver that never takes the apply button for missing
ApplyButtonMissingNever(visible) == FALSE

\* line 153: `if not apply_btn.first.is_visible(timeout=8000)`
ApplyButtonMissing(visible) == ~visible

\* a driver that stays on the page it navigated
WorkingPageKept(pgs, pg) == pg

\* lines 160-163: `if len(context.pages) > 1: page = context.pages[-1]`
WorkingPage(pgs, pg) == IF Len(pgs) > 1 THEN Len(pgs) ELSE pg

\* lines 152-165: the apply button, the click, the switch to the newest tab
fill_apply_button ==
  /\ pc = "applybtn"
  /\ \E visible \in BOOLEAN, opensTab \in BOOLEAN, outcome \in Outcomes :
       /\ applySeen' = IF visible THEN "visible" ELSE "absent"
       /\ IF ApplyButtonMissing(visible)
          THEN /\ outcome = "ok" /\ ~opensTab
               /\ FillReturn(_make_result(FALSE, NoId, NoApplyButtonNote, AttemptPlatform))
               /\ UNCHANGED <<pages, page, step, applyClicked>>
          ELSE /\ applyClicked' = TRUE
               /\ opensTab => Len(pages) < MaxTabs
               /\ pages' = IF opensTab THEN Append(pages, "job") ELSE pages
               /\ IF outcome = "ok"
                  THEN /\ page' = WorkingPage(pages', page)
                       /\ step' = 1
                       /\ pc' = "form"
                       /\ UNCHANGED <<result, results>>
                  ELSE /\ FillRaise(outcome)
                       /\ UNCHANGED <<page, step>>
  /\ UNCHANGED <<config, collab, loopVars, frame, pending, browser, launches, launched,
                 logins, attempted, nextClicks, submitClicks, seen, did, landed>>

\* the upload controls and text areas the forms show: any on a form met by a
\* direct apply() call, none on the forms met during a batch run
FormFields == IF mode = "direct" THEN BOOLEAN ELSE {FALSE}

\* whether a click of a form step can open a tab: on a form met by a direct
\* apply() call it can, on the forms met during a batch run it does not
FormTabs == IF mode = "direct" THEN BOOLEAN ELSE {FALSE}

\* the calls of one form step that can raise: the upload (lines 173-174),
\* the fill (179), the visibility tests (178, 185, 191), the click and the
\* wait after it (186-187, 192-193)
RaisePoints == {"upload", "fill", "checks", "click"}

\* a driver that tests next before submit
ClickOfNextFirst(submitVisible, nextVisible) ==
  IF nextVisible THEN "next" ELSE IF submitVisible THEN "submit" ELSE "none"

\* lines 185-195: if submit is visible click it, elif next is visible click it
ClickOf(submitVisible, nextVisible) ==
  IF submitVisible THEN "submit" ELSE IF nextVisible THEN "next" ELSE "none"

\* a loop that runs one iteration more
LoopGoesOnOneMore(k) == k <= max_steps

\* `for _ in range(max_steps)`: after iteration k another one follows
LoopGoesOn(k) == k < max_steps

\* a driver that goes on to the next iteration when it finds no control
BreaksNever(click) == FALSE

\* line 194-195: `else: break`
Breaks(click) == click = "none"

\* a form step that clicks before it uploads and fills
StepActionsClickFirst(canUpload, areaVisible, click) ==
  (IF click = "none" THEN <<>> ELSE <<click>>)
  \o (IF canUpload THEN <<"upload">> ELSE <<>>)
  \o (IF areaVisible THEN <<"fill">> ELSE <<>>)

\* lines 171-192: the interactions of one form step up to its click, in
\* program order
StepActions(canUpload, areaVisible, click) ==
  (IF canUpload THEN <<"upload">> ELSE <<>>)
  \o (IF areaVisible THEN <<"fill">> ELSE <<>>)
  \o (IF click = "none" THEN <<>> ELSE <<click>>)

\* lines 169-197: one iteration of the form loop: upload, fill, then submit
\* is tested first, then next, else the loop is left; any call may raise.
\* canUpload: an upload input is present and the resume file exists;
\* opensTab: the click opens a new tab.
fill_form_step ==
  /\ pc = "form"
  /\ \E canUpload \in FormFields, areaVisible \in FormFields,
        submitVisible \in BOOLEAN, nextVisible \in BOOLEAN,
        opensTab \in FormTabs, outcome \in Outcomes, at \in RaisePoints :
       LET click == ClickOf(submitVisible, nextVisible)
           checked == outcome = "ok" \/ at = "click"
       IN /\ outcome = "ok" => at = "click"
          /\ at = "upload" => canUpload
          /\ at = "fill" => areaVisible
          /\ (outcome # "ok" /\ at = "click") => click # "none"
          \* a step that raises before the tests never looks at the controls
          /\ ~checked => ~submitVisible /\ ~nextVisible
          /\ nextVisible => mode = "direct" \/ nextClicks < MaxRunNext
          \* a click may open a tab; the loop goes on with the page it has
          /\ opensTab => checked /\ click # "none" /\ Len(pages) < MaxTabs
          /\ pages' = IF opensTab THEN Append(pages, "job") ELSE pages
          /\ did' = IF checked THEN StepActions(canUpload, areaVisible, click)
                    ELSE IF at = "upload" THEN <<"upload">>
                    ELSE StepActions(canUpload, areaVisible, "none")
          /\ seen' = IF checked
                     THEN [checked |-> TRUE, submit |-> submitVisible,
                           next |-> nextVisible, upload |-> canUpload,
                           area |-> areaVisible]
                     ELSE NotChecked
          /\ submitClicks' = IF checked /\ click = "submit"
                             THEN submitClicks + 1 ELSE submitClicks
          /\ nextClicks' = IF checked /\ click = "next"
                           THEN nextClicks + 1 ELSE nextClicks
          /\ IF outcome # "ok"
             THEN FillRaise(outcome) /\ UNCHANGED step
             ELSE IF click = "submit"
             THEN /\ FillReturn(_make_result(TRUE, _timestamp_id,
                                             PLATFORM_CONFIG[AttemptPlatform].applied_note,
                                             AttemptPlatform))
                  /\ UNCHANGED step
             ELSE IF ~Breaks(click) /\ LoopGoesOn(step)
             THEN step' = step + 1 /\ UNCHANGED <<pc, result, results>>
             ELSE /\ FillReturn(_make_result(FALSE, NoId, StuckNote, AttemptPlatform))
                  /\ UNCHANGED step
  /\ UNCHANGED <<config, collab, loopVars, frame, pending, browser, launches, launched,
                 logins, attempted, page, applySeen, applyClicked, landed>>


\* ---------------------------------------------------- _process_single_job
Last(q) == q[Len(q)]

LogRow(job, r) ==
  [row |-> job._row_index, platform |-> job.platform, status |-> r.status,
   application_id |-> r.application_id]

Mail(job, r, sent) ==
  [row |-> job._row_index, platform |-> job.platform, status |-> r.status,
   sent |-> sent]

\* update_job_row and _send return before any remote call under DRY_RUN
ProcessOutcomes ==
  IF DRY_RUN THEN {"ok", "log_raises"}
  ELSE {"ok", "sheet_raises", "log_raises", "email_raises"}

\* a _process_single_job whose email call no try covers
PropagatesAll == {"sheet_raises", "log_raises", "email_raises"}

\* scheduler.py lines 96-107: the failures that leave _process_single_job:
\* mark_applied and log_application are called outside any try, the email
\* call inside `try ... except Exception`
Propagates == {"sheet_raises", "log_raises"}

\* scheduler.py lines 94-114: sheet writeback, audit log, email (guarded);
\* then the loop of _apply_platform_batch moves on, or the exception leaves it.
\* The locals of the attempt that has returned are dead and are cleared;
\* the tabs it left open stay open and now show an earlier job.
_process_single_job ==
  /\ pc = "process"
  /\ \E outcome \in ProcessOutcomes :
       LET r == Last(results[CurIndex])
           last == ji = Len(by_platform[gi].jobs)
       IN /\ sheet' = IF outcome = "sheet_raises" THEN sheet
                      ELSE mark_applied(sheet, CurJob)
          /\ auditLog' = IF outcome \in {"sheet_raises", "log_raises"} THEN auditLog
                         ELSE Append(auditLog, LogRow(CurJob, r))
          /\ notifier' = IF outcome \in {"sheet_raises", "log_raises"} THEN notifier
                         ELSE Append(notifier, Mail(CurJob, r, outcome = "ok" /\ ~DRY_RUN))
          /\ IF outcome \in Propagates
             THEN /\ pending' = IF outcome = "sheet_raises" THEN "sheet_error"
                                 ELSE "log_error"
                  /\ pc' = IF frame = "session" THEN "s_close"
                           ELSE Propagate("log_error")
                  /\ UNCHANGED <<gi, ji>>
             ELSE /\ UNCHANGED pending
                  /\ IF frame = "session"
                     THEN /\ pc' = IF last THEN "s_close" ELSE "s_job"
                          /\ ji' = IF last THEN ji ELSE ji + 1
                          /\ UNCHANGED gi
                     ELSE /\ pc' = IF last THEN "group" ELSE "apply"
                          /\ ji' = IF last THEN 0 ELSE ji + 1
                          /\ gi' = IF last THEN gi + 1 ELSE gi
  /\ result' = NoResult
  /\ ResetForm
  /\ page' = IF frame = "session" THEN 1 ELSE page
  /\ pages' = [i \in 1..Len(pages) |-> "other"]
  /\ UNCHANGED <<config, pending_jobs, batch, by_platform, frame, browser,
                 launches, launched, logins, results, attempted, statusVars>>

\* ------------------------------------------------ scheduler: a status check
\* status_tracker.py lines 112-121: the statuses read off an application card
CardStatuses == {"Rejected", "Interview Scheduled", "Under Review", "Offer Received"}

\* sheets.mark_status_changed through update_job_row: one API call per cell,
\* column D (Status) then column F (Last_Checked); nothing under DRY_RUN.
\* cells: how many of the two calls went through
mark_status_changed(sh, job, new_status, check_date, cells) ==
  IF DRY_RUN THEN sh
  ELSE LET r == job._row_index - 1
           d == IF cells >= 1 THEN [sh EXCEPT ![r].Status = new_status] ELSE sh
       IN IF cells >= 2 THEN [d EXCEPT ![r].Last_Checked = check_date] ELSE d

\* check_statuses up to the loop: read the Applied rows, cap
check_statuses ==
  /\ pc = "start"
  /\ mode = "status"
  /\ LET aj == read_jobs("Applied")
     IN /\ pending_jobs' = aj
        /\ batch' = Min(Len(aj), MAX_STATUS_CHECKS_PER_RUN)
        /\ IF Len(aj) = 0
           THEN pc' = "done" /\ ji' = 0
           ELSE pc' = "check" /\ ji' = 1
  /\ UNCHANGED <<config, collab, by_platform, gi, frame, pending, browser,
                 launches, launched, logins, result, results, attempted, formVars, tabVars>>

\* `for job in batch`: loop exit
check_statuses_done ==
  /\ pc = "check"
  /\ ji > batch
  /\ pc' = "done"
  /\ UNCHANGED <<config, collab, loopVars, frame, pending, browser, launches, launched,
                 logins, result, results, attempted, formVars, tabVars>>

\* status_tracker.check_job_status and the head of _check_linkedin (lines
\* 33-47, 62-83): a URL without linkedin.com and any check under DRY_RUN
\* report the job's own status; otherwise a browser is launched
check_job_status ==
  /\ pc = "check"
  /\ ji <= batch
  /\ IF ~Contains(Lower(JobUrl(CurJob)), "linkedin.com") \/ DRY_RUN
     THEN /\ checks' = Append(checks, [job |-> ji, new_status |-> CurJob.Status,
                                           performed |-> FALSE])
          /\ pc' = "mark"
          /\ UNCHANGED <<pending, browser, launches, launched, pages, page>>
     ELSE /\ \E outcome \in {"ok", "error"} :
               IF outcome = "ok"
               THEN /\ browser' = "open"
                    /\ launches' = [launches EXCEPT !["linkedin"] = @ + 1]
                    /\ launched' = launched \cup {Launch("linkedin", StatusCheckHeadless)}
                    /\ pages' = <<"other">>
                    /\ page' = 1
                    /\ pc' = "checking"
                    /\ UNCHANGED pending
               ELSE /\ pending' = "launch_error"
                    /\ pc' = Propagate("launch_error")
                    /\ UNCHANGED <<browser, launches, launched, pages, page>>
          /\ UNCHANGED checks
  /\ UNCHANGED <<config, sheet, auditLog, notifier, sheetCalls, status_changes,
                 status_mails, loopVars, frame, logins, result, results,
                 attempted, formVars>>

\* _check_linkedin lines 85-153: login, the applied-jobs page, the card scan
\* and browser.close() inside the try; `except PWTimeout` closes the browser
\* unguarded and reports the job's own status; `except Exception` does the
\* same with the close guarded.
\* body: the outcome of lines 87-121; close1: of line 128; close2: of the
\* close in the handler
_check_linkedin ==
  /\ pc = "checking"
  /\ \E found \in {CurJob.Status} \cup CardStatuses,
        body \in Outcomes, close1 \in Outcomes, close2 \in Outcomes :
       LET raised == IF body # "ok" THEN body ELSE close1
       IN /\ body # "ok" => close1 = "ok" /\ found = CurJob.Status
          /\ raised = "ok" => close2 = "ok"
          /\ IF raised = "timeout" /\ close2 # "ok"
             THEN /\ pending' = "close_" \o close2
                  /\ pc' = Propagate(close2)
                  /\ UNCHANGED checks
             ELSE /\ checks' = Append(checks,
                       [job |-> ji,
                        new_status |-> IF raised = "ok" THEN found ELSE CurJob.Status,
                        performed |-> raised = "ok"])
                  /\ pc' = "mark"
                  /\ UNCHANGED pending
  /\ browser' = PlaywrightExit("closed")
  /\ NoTabs
  /\ UNCHANGED <<config, sheet, auditLog, notifier, sheetCalls, status_changes,
                 status_mails, loopVars, frame, launches, launched, logins, result,
                 results, attempted, formVars>>

\* a loop body that touches the sheet only when the status changed
MarksSheetOnChange(old_status, new_status) == new_status # old_status

\* scheduler.py line 152: the sheet is updated whatever the check found
MarksSheet(old_status, new_status) == TRUE

\* the sheet, audit-log and email calls of one loop body, each of which can
\* raise: the two cell updates of mark_status_changed, log_status_change,
\* send_status_update_email (the last two only when the status changed)
StatusOutcomes(changed) ==
  (IF DRY_RUN THEN {"ok"} ELSE {"ok", "status_cell_raises", "date_cell_raises"})
  \cup (IF changed THEN {"log_raises"} ELSE {})
  \cup (IF changed /\ ~DRY_RUN THEN {"email_raises"} ELSE {})

\* the failures that leave the loop body: only the email call is in a try
StatusPropagates == {"status_cell_raises", "date_cell_raises", "log_raises"}

\* check_statuses lines 144-166: the sheet update, then, when the status
\* changed, the status-change log row and the email (guarded)
check_statuses_report ==
  /\ pc = "mark"
  /\ LET job == CurJob
         old_status == job.Status
         new_status == Last(checks).new_status
         changed == new_status # old_status
         marks == MarksSheet(old_status, new_status)
     IN \E outcome \in StatusOutcomes(changed) :
          LET cells == IF outcome = "status_cell_raises" THEN 0
                       ELSE IF outcome = "date_cell_raises" THEN 1 ELSE 2
              logged == changed /\ outcome \in {"ok", "email_raises"}
          IN /\ outcome \in {"status_cell_raises", "date_cell_raises"} => marks
             /\ sheetCalls' = IF marks
                              THEN Append(sheetCalls, [row |-> job._row_index,
                                                       status |-> new_status,
                                                       date |-> utcnow])
                              ELSE sheetCalls
             /\ sheet' = IF marks
                         THEN mark_status_changed(sheet, job, new_status, utcnow, cells)
                         ELSE sheet
             /\ status_changes' = IF logged
                                  THEN Append(status_changes,
                                              [row |-> job._row_index,
                                               old_status |-> old_status,
                                               new_status |-> new_status])
                                  ELSE status_changes
             /\ status_mails' = IF logged
                                THEN Append(status_mails,
                                            [row |-> job._row_index,
                                             new_status |-> new_status,
                                             sent |-> outcome = "ok" /\ ~DRY_RUN])
                                ELSE status_mails
             /\ IF outcome \in StatusPropagates
                THEN /\ pending' = IF outcome = "log_raises" THEN "log_error"
                                   ELSE "sheet_error"
                     /\ pc' = Propagate("sheet_error")
                     /\ UNCHANGED ji
                ELSE /\ pc' = "check"
                     /\ ji' = ji + 1
                     /\ UNCHANGED pending
  /\ UNCHANGED <<config, auditLog, notifier, checks, pending_jobs, batch,
                 by_platform, gi, frame, browser, launches, launched, logins, result,
                 results, attempted, formVars, tabVars>>

\* ------------------------------------------------------------ cancellation
\* the suspension points: the calls that block on the browser
Waiting == pc \in {"a_login", "a_checkpoint", "s_login", "s_checkpoint", "goto",
                   "applybtn", "form", "a_close", "a_except_timeout",
                   "a_except_error", "s_close", "checking"}

\* operator interrupt (KeyboardInterrupt) while the program waits on the
\* browser: no `except Exception` catches it;
\* platform_session's finally and the `with sync_playwright()` exits still run;
\* the frames of the attempt in progress are unwound and their locals are gone
cancel ==
  /\ Waiting
  /\ pending # "cancel"
  /\ pending' = "cancel"
  /\ IF frame = "session" /\ pc # "s_close"
     THEN pc' = "s_close" /\ UNCHANGED browser
     ELSE pc' = Propagate("cancel") /\ browser' = PlaywrightExit(browser)
  /\ result' = NoResult
  /\ ResetForm
  /\ page' = 0
  /\ pages' = IF pc' = "s_close" THEN pages ELSE <<>>
  /\ UNCHANGED <<config, collab, loopVars, frame, launches, launched, logins, results,
                 attempted>>

\* ------------------------------------------------------------------- spec
Next ==
  \/ apply_to_jobs
  \/ apply_to_jobs_done
  \/ _apply_platform_batch
  \/ direct_call
  \/ apply_route
  \/ a_launch
  \/ a_login
  \/ a_checkpoint
  \/ a_close
  \/ a_except_timeout
  \/ a_except_error
  \/ s_launch
  \/ s_login
  \/ s_checkpoint
  \/ s_apply_with_session
  \/ s_close
  \/ fill_goto
  \/ fill_apply_button
  \/ fill_form_step
  \/ _process_single_job
  \/ cancel

Spec == Init /\ [][Next]_vars

\* a run or a direct call that no operator interrupts and in which every
\* wait succeeds or hits its deadline: the step the program waits on is
\* taken sooner or later (every Playwright wait of browser_apply.py carries
\* a timeout, the given one or the default)
NextLive ==
  \/ apply_to_jobs
  \/ apply_to_jobs_done
  \/ _apply_platform_batch
  \/ direct_call
  \/ apply_route
  \/ a_launch
  \/ a_login
  \/ a_checkpoint
  \/ a_close
  \/ a_except_timeout
  \/ a_except_error
  \/ s_launch
  \/ s_login
  \/ s_checkpoint
  \/ s_apply_with_session
  \/ s_close
  \/ fill_goto
  \/ fill_apply_button
  \/ fill_form_step
  \/ _process_single_job

SpecLive == Init /\ [][NextLive]_vars /\ WF_vars(NextLive)

\* a status-check run: check_statuses() is called on a sheet whose rows are
\* Applied or Not Applied
InitStatus ==
  /\ DRY_RUN \in BOOLEAN
  /\ mode = "status"
  /\ MAX_APPLICATIONS_PER_RUN = 1
  /\ MAX_STATUS_CHECKS_PER_RUN \in StatusCaps
  /\ sheet \in Sheets("Not Applied")
  /\ pending_jobs = <<>>
  /\ InitLocals

NextStatus ==
  \/ check_statuses
  \/ check_statuses_done
  \/ check_job_status
  \/ _check_linkedin
  \/ check_statuses_report
  \/ cancel

SpecStatus == InitStatus /\ [][NextStatus]_vars

\* ------------------------------------------------- runs under the scheduler
\* the sheets whose rows are Not Applied or Applied, with any URL
MixedSheets ==
  UNION {[1..n -> [Job_URL : SheetUrls, Status : SheetStatuses,
                   Last_Checked : {""}]] : n \in 0..MaxJobs}

\* main.py lines 47-50, 98-108: the process is started with --dry-run and
\* runs the scheduler, whose first trigger starts either workflow
InitDry ==
  /\ DRY_RUN = TRUE
  /\ mode \in {"run", "status"}
  /\ MAX_APPLICATIONS_PER_RUN \in RunCaps
  /\ MAX_STATUS_CHECKS_PER_RUN \in StatusCaps
  /\ sheet \in MixedSheets
  /\ pending_jobs = <<>>
  /\ InitLocals

\* the sheet rows of the jobs of this run whose apply attempt returned a
\* success Result while dry-run was off: their application was submitted
SubmittedRows ==
  IF DRY_RUN THEN {}
  ELSE {pending_jobs[k]._row_index :
          k \in {j \in 1..Len(pending_jobs) :
                   \E i \in 1..Len(results[j]) : results[j][i].status = "Applied"}}

\* build_scheduler lines 174-209: after a workflow run has ended (returned,
\* or raised into the scheduler, which logs the exception), the next trigger
\* starts apply_to_jobs or check_statuses in the same process: the locals of
\* the finished run are gone, the sheet, the audit log and the mails stay
next_run ==
  /\ pc \in {"done", "raised"}
  /\ runs + 1 < MaxRuns
  /\ runs' = runs + 1
  /\ mode' \in {"run", "status"}
  /\ pending_jobs' = <<>> /\ batch' = 0 /\ by_platform' = <<>>
  /\ gi' = 0 /\ ji' = 0
  /\ pc' = "start" /\ frame' = "none" /\ pending' = "none"
  /\ browser' = "none"
  /\ result' = NoResult
  /\ results' = [k \in 1..MaxJobs + 1 |-> <<>>]
  /\ attempted' = <<>>
  /\ checks' = <<>>
  /\ ResetForm
  /\ NoTabs
  /\ submitted' = submitted \cup SubmittedRows
  /\ UNCHANGED <<DRY_RUN, MAX_APPLICATIONS_PER_RUN, MAX_STATUS_CHECKS_PER_RUN,
                 workers, sheet, auditLog, notifier, sheetCalls, status_changes,
                 status_mails, launches, launched, logins>>

\* the steps either workflow takes while the dry-run flag is set
NextDry ==
  \/ apply_to_jobs
  \/ apply_to_jobs_done
  \/ _apply_platform_batch
  \/ apply_route
  \/ _process_single_job
  \/ check_statuses
  \/ check_statuses_done
  \/ check_job_status
  \/ check_statuses_report
  \/ next_run

SpecDry == InitDry /\ [][NextDry]_vars

\* ------------------------------------------ apply runs, one after another
\* main.py lines 93-106: the scheduler is started with dry-run off and its
\* apply_to_jobs trigger fires on every weekday: each run reads the sheet
\* the runs before it left behind
\* the sheets of the runs: Not Applied rows of linkedin.com and of no
\* supported platform
RunSheets ==
  {sh \in MixedSheets :
     \A r \in 1..Len(sh) : /\ sh[r].Status = "Not Applied"
                            /\ sh[r].Job_URL # <<"indeed.com">>}

InitRuns ==
  /\ DRY_RUN = FALSE
  /\ mode = "run"
  /\ MAX_APPLICATIONS_PER_RUN \in RunCaps
  /\ MAX_STATUS_CHECKS_PER_RUN = 1
  /\ sheet \in RunSheets
  /\ pending_jobs = <<>>
  /\ InitLocals

\* the next trigger of apply_to_jobs fires after the run before it has ended
next_apply_run == next_run /\ mode' = "run"

NextRuns ==
  \/ apply_to_jobs
  \/ apply_to_jobs_done
  \/ _apply_platform_batch
  \/ apply_route
  \/ s_launch
  \/ s_login
  \/ s_checkpoint
  \/ s_apply_with_session
  \/ s_close
  \/ fill_goto
  \/ fill_apply_button
  \/ fill_form_step
  \/ _process_single_job
  \/ next_apply_run

SpecRuns == InitRuns /\ [][NextRuns]_vars

\* --------------------------------------- the two workflows as scheduled jobs
\* main.py line 98 and build_scheduler: a BlockingScheduler with its default
\* executor, a pool of threads; apply_to_jobs and check_statuses are added as
\* two jobs with their own cron triggers (any APPLY_HOUR, APPLY_MINUTE and
\* STATUS_CHECK_HOUR in range, misfire_grace_time one hour).  A run is
\* followed here through the resources it uses: the sheet read, the browser
\* work on one job, the sheet write for that job.  The rows are linkedin rows
\* (browser work in either workflow) or rows of no supported platform (none).
InitSched ==
  /\ DRY_RUN = FALSE
  /\ mode = "scheduler"
  /\ MAX_APPLICATIONS_PER_RUN \in RunCaps
  /\ MAX_STATUS_CHECKS_PER_RUN \in StatusCaps
  /\ sheet \in {sh \in MixedSheets :
                  \A r \in 1..Len(sh) : sh[r].Job_URL # <<"indeed.com">>}
  /\ pending_jobs = <<>>
  /\ InitLocals

StatusFilter(j) == IF j = "apply_to_jobs" THEN "Not Applied" ELSE "Applied"

CapOf(j) == IF j = "apply_to_jobs" THEN MAX_APPLICATIONS_PER_RUN
            ELSE MAX_STATUS_CHECKS_PER_RUN

\* whether the work on a job dict drives a browser: apply_with_session or
\* apply() on a supported platform; _check_linkedin on a linkedin.com URL
NeedsBrowser(j, job) ==
  IF j = "apply_to_jobs" THEN ClassifyGroup(job) # "generic"
  ELSE Contains(Lower(JobUrl(job)), "linkedin.com")

Running == {j \in SchedJobs : workers[j].at # "idle"}

\* a trigger fires: the scheduler hands the job to a pool thread unless an
\* instance of the same job is still running (max_instances is left at 1);
\* an instance of the other job is no obstacle
trigger(j) ==
  /\ workers[j].at = "idle"
  /\ runs + Cardinality(Running) < MaxRuns
  /\ workers' = [workers EXCEPT ![j] = [at |-> "read", todo |-> <<>>]]
  /\ UNCHANGED <<DRY_RUN, MAX_APPLICATIONS_PER_RUN, MAX_STATUS_CHECKS_PER_RUN,
                 submitted, mode, runs, collab, loopVars, pc, frame, pending, browser,
                 launches, launched, logins, result, results, attempted, formVars, tabVars>>

\* what a pool thread leaves behind when its run is over
RunEnds(j) ==
  /\ workers' = [workers EXCEPT ![j] = Idle]
  /\ runs' = runs + 1

\* apply_to_jobs lines 37-46, check_statuses lines 127-134: read the rows
\* with the workflow's status, cap them
w_read(j) ==
  /\ workers[j].at = "read"
  /\ LET jobs == read_jobs(StatusFilter(j))
         n == Min(Len(jobs), CapOf(j))
     IN IF n = 0
        THEN RunEnds(j)
        ELSE /\ workers' = [workers EXCEPT ![j] = [at |-> "pick", todo |-> SubSeq(jobs, 1, n)]]
             /\ UNCHANGED runs
  /\ UNCHANGED <<DRY_RUN, MAX_APPLICATIONS_PER_RUN, MAX_STATUS_CHECKS_PER_RUN,
                 submitted, mode, collab, loopVars, pc, frame, pending, browser,
                 launches, launched, logins, result, results, attempted, formVars, tabVars>>

\* the loop over the batch: the next job goes to the browser, or (generic
\* job, URL without linkedin.com) straight to the sheet write
w_pick(j) ==
  /\ workers[j].at = "pick"
  /\ IF workers[j].todo = <<>>
     THEN RunEnds(j)
     ELSE /\ workers' = [workers EXCEPT ![j].at =
                           IF NeedsBrowser(j, Head(workers[j].todo))
                           THEN "browser" ELSE "write"]
          /\ UNCHANGED runs
  /\ UNCHANGED <<DRY_RUN, MAX_APPLICATIONS_PER_RUN, MAX_STATUS_CHECKS_PER_RUN,
                 submitted, mode, collab, loopVars, pc, frame, pending, browser,
                 launches, launched, logins, result, results, attempted, formVars, tabVars>>

\* the browser work on one job is over: a Result or a check result came
\* back, or an exception left the workflow (a failed login of a session, a
\* failed launch)
w_browser(j) ==
  /\ workers[j].at = "browser"
  /\ \E outcome \in {"ok", "raises"} :
       IF outcome = "ok"
       THEN workers' = [workers EXCEPT ![j].at = "write"] /\ UNCHANGED runs
       ELSE RunEnds(j)
  /\ UNCHANGED <<DRY_RUN, MAX_APPLICATIONS_PER_RUN, MAX_STATUS_CHECKS_PER_RUN,
                 submitted, mode, collab, loopVars, pc, frame, pending, browser,
                 launches, launched, logins, result, results, attempted, formVars, tabVars>>

\* scheduler.py line 98 (mark_applied) and line 152 (mark_status_changed):
\* the sheet write for the job, keyed on the row index it was read with
w_write(j) ==
  /\ workers[j].at = "write"
  /\ LET job == Head(workers[j].todo)
     IN \E outcome \in {"ok", "raises"},
           new_status \in {job.Status} \cup CardStatuses :
          /\ (j = "apply_to_jobs" \/ ~NeedsBrowser(j, job) \/ outcome = "raises")
               => new_status = job.Status
          /\ IF outcome = "ok"
             THEN /\ sheet' = IF j = "apply_to_jobs" THEN mark_applied(sheet, job)
                              ELSE mark_status_changed(sheet, job, new_status, utcnow, 2)
                  /\ workers' = [workers EXCEPT ![j] =
                                   [at |-> "pick", todo |-> Tail(workers[j].todo)]]
                  /\ UNCHANGED runs
             ELSE RunEnds(j) /\ UNCHANGED sheet
  /\ UNCHANGED <<DRY_RUN, MAX_APPLICATIONS_PER_RUN, MAX_STATUS_CHECKS_PER_RUN,
                 submitted, mode, auditLog, notifier, statusVars, loopVars, pc, frame,
                 pending, browser, launches, launched, logins, result, results,
                 attempted, formVars, tabVars>>

NextSched ==
  \/ \E j \in SchedJobs : trigger(j)
  \/ \E j \in SchedJobs : w_read(j)
  \/ \E j \in SchedJobs : w_pick(j)
  \/ \E j \in SchedJobs : w_browser(j)
  \/ \E j \in SchedJobs : w_write(j)

SpecSched == InitSched /\ [][NextSched]_vars


\* ================================================================= claims
BatchJobs == 1..batch
ResultsOf(k) == {results[k][i] : i \in 1..Len(results[k])}
WasAttempted(k) == \E i \in 1..Len(attempted) : attempted[i] = k
HasAutoPrefix(id) == Len(id) >= 1 /\ id[1] = "AUTO_"
HasFragment(job, needle) ==
  \E i \in 1..Len(JobUrl(job)) : LowerFragment(JobUrl(job)[i]) = needle

\* a run that ended by itself or on a timeout or error of login, navigation
\* or form interaction (no interrupt, no collaborator failure)
RunOver == mode = "run" /\ pc \in {"done", "raised"}
           /\ pending \in {"none", "timeout", "error"}

\* C1: in a batch run every job of the capped batch yields exactly one
\* Result, also when login, navigation or form interaction times out or
\* raises, or when the platform is unsupported: at the end of the run no job
\* of the batch has zero Results or more than one.
C1_ExactlyOneResult ==
  RunOver => \A k \in BatchJobs : Len(results[k]) = 1

\* C2: a timeout, a missing control, an unsupported platform and a failed
\* login are each turned into a failure Result with a note inside the apply
\* attempt; no timeout or error of login, navigation or form interaction
\* leaves the attempt as an exception that ends the run.
C2_ErrorsBecomeResults ==
  /\ ~(pc = "raised" /\ pending \in Exceptions)
  /\ \A k \in 1..Len(pending_jobs) : \A r \in ResultsOf(k) :
       r.status = "Failed" => r.notes # <<>>

\* C3: a failure while attempting job i, a login failure of its platform
\* group included, never prevents jobs i+1..N from being attempted: when the
\* run is over every job of the capped batch has been attempted.
C3_AllAttempted ==
  RunOver => \A k \in BatchJobs : WasAttempted(k)

C5_CloseNeverMasks ==
  /\ (pc \in {"done", "process"} /\ result # NoResult)
       => Last(results[CurIndex]) = result
  /\ ~(pc = "raised" /\ pending \in {"close_timeout", "close_error"})

\* C6: in one apply_to_jobs run at most one browser is launched and login is
\* invoked at most once per distinct platform, however many jobs of the
\* platform the batch holds and however they are interleaved.
C6_OneSessionPerPlatform ==
  mode = "run" => \A p \in Platforms : launches[p] <= 1 /\ logins[p] <= 1

\* C6 witness: a finished run over linkedin, indeed, linkedin (in source
\* order) that logged in once to each platform and gave every job a Result.
C6_Witness ==
  /\ mode = "run" /\ pc = "done" /\ ~DRY_RUN /\ batch = 3
  /\ \E g \in 1..Len(by_platform) :
       by_platform[g].platform = "linkedin" /\ by_platform[g].jobs = <<1, 3>>
  /\ logins["linkedin"] = 1 /\ logins["indeed"] = 1
  /\ launches["linkedin"] = 1 /\ launches["indeed"] = 1
  /\ \A k \in BatchJobs : Len(results[k]) = 1

BrowserPcs == {"a_launch", "a_login", "a_close", "a_except_timeout",
               "a_except_error", "s_launch", "s_login", "s_job", "goto",
               "applybtn", "form", "s_close"}

\* C7: a generic job, and any job processed under dry-run, never causes a
\* browser launch or a login, through apply() or _apply_platform_batch: it
\* gets its Result without the browser path being entered.
C7_NoBrowserForGenericOrDryRun ==
  /\ DRY_RUN => /\ \A p \in Platforms : launches[p] = 0 /\ logins[p] = 0
                /\ browser = "none"
  /\ launches["generic"] = 0 /\ logins["generic"] = 0
  /\ pc \in BrowserPcs => ~DRY_RUN /\ ClassifyApply(CurJob) # "generic"

\* C7 witness: a finished dry-run over a linkedin job and a generic job, both
\* with their Result.
C7_Witness ==
  /\ mode = "run" /\ DRY_RUN /\ pc = "done" /\ batch = 2
  /\ pending_jobs[1].platform = "linkedin" /\ pending_jobs[2].platform = "generic"
  /\ Len(results[1]) = 1 /\ Len(results[2]) = 1

\* C8 (as claimed): for all jobs, under dry-run, apply returns a success
\* Result (status Applied) with an AUTO_ id and opens no session.
C8_DryRunAlwaysSucceeds ==
  DRY_RUN =>
    /\ \A p \in Platforms : launches[p] = 0
    /\ \A k \in 1..Len(pending_jobs) : \A r \in ResultsOf(k) :
         r.status = "Applied" /\ HasAutoPrefix(r.application_id)

\* C8 (amended): for all jobs classified linkedin or indeed, under dry-run,
\* apply returns a success Result (status Applied) with an AUTO_ id and
\* opens no session.
C8_DryRunSucceedsOnSupported ==
  DRY_RUN =>
    /\ \A p \in Platforms : launches[p] = 0
    /\ browser = "none"
    /\ \A k \in 1..Len(pending_jobs) : \A r \in ResultsOf(k) :
         pending_jobs[k].platform \in {"linkedin", "indeed"}
           => r.status = "Applied" /\ HasAutoPrefix(r.application_id)

\* C8 witness: apply() returned under dry-run for a job classified indeed.
C8_Witness ==
  /\ DRY_RUN /\ mode = "direct" /\ pc = "done"
  /\ pending_jobs[1].platform = "indeed"
  /\ Len(results[1]) = 1 /\ results[1][1].status = "Applied"

\* C9: for every generic-classified job, dry-run on or off, apply returns a
\* failure Result (status Failed) with platform generic and a note saying
\* the application must be made manually.
C9_GenericFails ==
  \A k \in 1..Len(pending_jobs) :
    (WasAttempted(k) /\ ClassifyApply(pending_jobs[k]) = "generic")
      => /\ pc \notin {"apply"} => Len(results[k]) = 1
         /\ \A r \in ResultsOf(k) :
              /\ r.status = "Failed"
              /\ r.platform = "generic"
              /\ Contains(r.notes, "manually")

\* C9 witness: apply() returned for a generic job while dry-run is on.
C9_Witness ==
  /\ DRY_RUN /\ mode = "direct" /\ pc = "done"
  /\ pending_jobs[1].platform = "generic"
  /\ Len(results[1]) = 1 /\ results[1][1].status = "Failed"

\* the platform a job was grouped under by apply_to_jobs
GroupedAs(k) ==
  {by_platform[g].platform : g \in {h \in 1..Len(by_platform) :
      \E i \in 1..Len(by_platform[h].jobs) : by_platform[h].jobs[i] = k}}

\* C10 (as claimed): classification depends on the URL only: a URL that
\* contains linkedin.com (case-insensitive) yields linkedin, one that
\* contains indeed.com yields indeed, anything else (a missing URL too)
\* yields generic; the scheduler's grouping and apply() agree.
C10_ClassificationBySubstring ==
  \A k \in 1..Len(pending_jobs) :
    LET job == pending_jobs[k]
        given == (IF job.platform = "" THEN {} ELSE {job.platform}) \cup GroupedAs(k)
    IN /\ Cardinality(given) <= 1
       /\ \A p \in given :
            /\ HasFragment(job, "linkedin.com") => p = "linkedin"
            /\ HasFragment(job, "indeed.com") => p = "indeed"
            /\ (~HasFragment(job, "linkedin.com") /\ ~HasFragment(job, "indeed.com"))
                 => p = "generic"

\* C10 (amended): a URL that contains linkedin.com (case-insensitive) yields
\* linkedin, one that contains indeed.com and not linkedin.com yields indeed,
\* anything else (a missing URL too) yields generic; the scheduler's
\* grouping and apply() agree.
C10_ClassificationLinkedinFirst ==
  \A k \in 1..Len(pending_jobs) :
    LET job == pending_jobs[k]
        given == (IF job.platform = "" THEN {} ELSE {job.platform}) \cup GroupedAs(k)
    IN /\ Cardinality(given) <= 1
       /\ \A p \in given :
            /\ HasFragment(job, "linkedin.com") => p = "linkedin"
            /\ (HasFragment(job, "indeed.com") /\ ~HasFragment(job, "linkedin.com"))
                 => p = "indeed"
            /\ (~HasFragment(job, "linkedin.com") /\ ~HasFragment(job, "indeed.com"))
                 => p = "generic"

\* C10 witness: apply() classified a job whose URL holds an upper-case
\* indeed.com fragment and a linkedin.com fragment.
C10_Witness ==
  /\ mode = "direct" /\ pc = "done"
  /\ pending_jobs[1].Job_URL = <<"INDEED.com", "linkedin.com">>
  /\ pending_jobs[1].platform = "linkedin"

\* the job of the run that was read from sheet row `row`
JobOfRow(row) == CHOOSE k \in 1..Len(pending_jobs) : pending_jobs[k]._row_index = row

\* C11: after any apply attempt (dry-run, generic, one-shot, reused session)
\* the job record handed to the audit log and to the notifier carries the
\* classified platform: every audit-log row and every notification shows the
\* platform its job's URL classifies to.
C11_PlatformWrittenBack ==
  /\ \A i \in 1..Len(auditLog) :
       auditLog[i].platform = ClassifyApply(pending_jobs[JobOfRow(auditLog[i].row)])
  /\ \A i \in 1..Len(notifier) :
       notifier[i].platform = ClassifyApply(pending_jobs[JobOfRow(notifier[i].row)])

\* how often job k was attempted
Attempts(k) == Cardinality({i \in 1..Len(attempted) : attempted[i] = k})

\* C12: with len pending jobs and a maximum max, a run makes exactly
\* min(len, max) apply attempts, one on each of the first min(len, max) jobs
\* of the source list and none on any other; with an empty list none.
C12_ExactlyMinAttempts ==
  LET n == Min(Len(pending_jobs), MAX_APPLICATIONS_PER_RUN)
  IN RunOver =>
       /\ Len(attempted) = n
       /\ \A k \in 1..Len(pending_jobs) : Attempts(k) = IF k <= n THEN 1 ELSE 0

\* C13 (as claimed): jobs are attempted in source order: whenever a precedes
\* b in the list returned by the job source, the attempt on a begins before
\* the attempt on b, also across platforms.
C13_SourceOrder ==
  \A i, j \in 1..Len(attempted) : i < j => attempted[i] < attempted[j]

\* the position in by_platform of the group that holds job k
GroupOf(k) ==
  CHOOSE g \in 1..Len(by_platform) :
    \E i \in 1..Len(by_platform[g].jobs) : by_platform[g].jobs[i] = k

\* C13 (amended): jobs are attempted group by group: the platform groups are
\* taken in the order in which their first job appears in the source list,
\* and inside a group the jobs are attempted in source order.
C13_GroupThenSourceOrder ==
  mode = "run" =>
    /\ \A g, h \in 1..Len(by_platform) :
         g < h => by_platform[g].jobs[1] < by_platform[h].jobs[1]
    /\ \A i, j \in 1..Len(attempted) :
         i < j => \/ GroupOf(attempted[i]) < GroupOf(attempted[j])
                  \/ /\ GroupOf(attempted[i]) = GroupOf(attempted[j])
                     /\ attempted[i] < attempted[j]

\* C13 witness: a batch linkedin, indeed, linkedin whose third job was
\* attempted before its second.
C13_Witness ==
  /\ mode = "run" /\ ~DRY_RUN /\ pc = "done"
  /\ attempted = <<1, 3, 2>>

\* C14: if the notifier raises while reporting job i, the Result of job i is
\* unchanged, the sheet writeback and the audit-log row made from it stand,
\* no exception is in flight, and control goes on to the next job of the
\* group (or to the end of the group).
C14_NotifierFailureHarmless ==
  [][(/\ pc = "process" /\ ~DRY_RUN
      /\ Len(notifier') = Len(notifier) + 1
      /\ ~Last(notifier').sent)
       => /\ results' = results
          /\ pending' = "none"
          /\ sheet'[CurJob._row_index - 1].Status = "Applied"
          /\ auditLog' = Append(auditLog, LogRow(CurJob, Last(results[CurIndex])))
          /\ IF ji < Len(by_platform[gi].jobs)
             THEN ji' = ji + 1 /\ gi' = gi /\ pc' \in {"s_job", "apply"}
             ELSE pc' \in {"s_close", "group"}]_vars

\* C14 witness: a finished run of two jobs in which the email for the first
\* job failed and the second job was attempted, written back and logged.
C14_Witness ==
  /\ mode = "run" /\ ~DRY_RUN /\ pc = "done" /\ batch = 2
  /\ Len(notifier) = 2 /\ ~notifier[1].sent
  /\ Len(attempted) = 2 /\ Len(auditLog) = 2
  /\ \A k \in BatchJobs : Len(results[k]) = 1

\* C15: if the audit-log append fails for job i, the run does not abort and
\* the next job of the batch is still processed: no audit-log failure is ever
\* an exception in flight, and a run in which the log failed still attempts
\* every job of the batch.
C15_LogFailureHarmless ==
  /\ pending # "log_error"
  /\ (mode = "run" /\ pc \in {"done", "raised"} /\ pending \in {"none", "log_error"})
       => \A k \in BatchJobs : WasAttempted(k)

\* C16: submit is tested before next: a form step that finds submit visible
\* (with next visible or not) clicks submit and nothing else, the loop ends
\* on that step, and when the driver returns from it, it returns the
\* Submitted Result; next is never clicked on a step where submit is visible.
C16_SubmitBeforeNext ==
  (seen.checked /\ seen.submit) =>
    /\ did # <<>> /\ Last(did) = "submit"
    /\ ~Contains(did, "next")
    /\ pc # "form"
    /\ result # NoResult =>
         result = _make_result(TRUE, _timestamp_id,
                               PLATFORM_CONFIG[AttemptPlatform].applied_note,
                               AttemptPlatform)

\* C16 witness: after one next page the form showed submit and next together
\* and the driver returned Submitted.
C16_Witness ==
  /\ seen.checked /\ seen.submit /\ seen.next
  /\ nextClicks = 1 /\ submitClicks = 1 /\ step = 2
  /\ result.status = "Applied"

\* C17: the form loop is bounded by 10: at most 10 iterations, at most 10
\* next clicks and at most one submit click per attempt; after the 10th next
\* click the loop is over, and when the driver returns from there it returns
\* the Stuck failure Result, never Submitted.
C17_FormLoopBounded ==
  /\ step <= max_steps /\ nextClicks <= max_steps /\ submitClicks <= 1
  /\ nextClicks = max_steps =>
       /\ pc # "form"
       /\ submitClicks = 0
       /\ result # NoResult =>
            result = _make_result(FALSE, NoId, StuckNote, AttemptPlatform)

\* C17 witness: a form that offered only next on all 10 steps ended as Stuck.
C17_Witness ==
  /\ nextClicks = max_steps /\ step = max_steps
  /\ seen.checked /\ ~seen.submit /\ seen.next
  /\ result.status = "Failed" /\ result.notes = StuckNote

\* C18: a form step that finds neither submit nor next returns the Stuck
\* failure Result on that very step: nothing is clicked and no further
\* iteration runs.
C18_StuckAtOnce ==
  (seen.checked /\ ~seen.submit /\ ~seen.next) =>
    /\ pc # "form"
    /\ ~Contains(did, "submit") /\ ~Contains(did, "next")
    /\ result = _make_result(FALSE, NoId, StuckNote, AttemptPlatform)

\* C18 witness: the first form step found no control and the driver returned
\* Stuck with nine iterations unused.
C18_Witness ==
  /\ seen.checked /\ ~seen.submit /\ ~seen.next
  /\ step = 1 /\ nextClicks = 0
  /\ result.notes = StuckNote

\* C19: when the apply button is not visible after navigation, the attempt
\* ends with the NoApplyButton failure Result and the driver performs no
\* apply click, no tab switch, no upload, no fill, no submit or next click.
C19_NoApplyButtonEndsAttempt ==
  applySeen = "absent" =>
    /\ result = _make_result(FALSE, NoId, NoApplyButtonNote, AttemptPlatform)
    /\ pc \notin {"goto", "applybtn", "form"}
    /\ ~applyClicked
    /\ page = 1
    /\ step = 0 /\ did = <<>> /\ ~seen.checked
    /\ nextClicks = 0 /\ submitClicks = 0

\* C19 witness: in a reused session the second job of the group had no apply
\* button and got the NoApplyButton Result.
C19_Witness ==
  /\ applySeen = "absent" /\ frame = "session" /\ pc = "process" /\ ji = 2
  /\ Last(results[CurIndex]).notes = NoApplyButtonNote

\* the checks whose loop body has run: all but a check that has just returned
Reported(i) == i < Len(checks) \/ pc # "mark"

\* the calls of mark_status_changed made for sheet row `row`
CallsFor(row) == {c \in 1..Len(sheetCalls) : sheetCalls[c].row = row}

ChangesFor(row) == {c \in 1..Len(status_changes) : status_changes[c].row = row}
MailsFor(row) == {m \in 1..Len(status_mails) : status_mails[m].row = row}

\* C21: in a status-check run a status-change row is appended to the audit
\* log and a status email is attempted for a checked job if and only if the
\* status the check returned differs from the status the job was read with
\* (once for a changed job, never for an unchanged one); a status email that
\* fails leaves no exception in flight and the loop goes on to the next job.
\* (A job whose sheet update raised is left out.)
C21_LogAndMailIffChanged ==
  \A i \in 1..Len(checks) :
    LET job == pending_jobs[checks[i].job]
        row == job._row_index
        changed == checks[i].new_status # job.Status
    IN (Reported(i) /\ ~(i = Len(checks) /\ pending = "sheet_error")) =>
         /\ Cardinality(ChangesFor(row)) = IF changed THEN 1 ELSE 0
         /\ Cardinality(MailsFor(row)) = IF changed THEN 1 ELSE 0
         /\ (\E m \in MailsFor(row) : ~status_mails[m].sent) => ji > checks[i].job

\* C22: while the dry-run flag is set, no step of an apply run or of a
\* status-check run, in any sequence of such runs, changes a cell of the
\* sheet or sends an email: every notifier call is a no-op, and the list of
\* jobs the source reports as Not Applied stays what it was.
C22_DryRunWritesNothing ==
  [][DRY_RUN =>
       /\ sheet' = sheet
       /\ read_jobs("Not Applied")' = read_jobs("Not Applied")
       /\ \A i \in 1..Len(notifier') : ~notifier'[i].sent
       /\ \A i \in 1..Len(status_mails') : ~status_mails'[i].sent]_vars

\* C22 witness: under dry-run an apply run reported a job (writeback, log,
\* email) and the status-check run after it called the sheet update; the
\* reported job's row is still Not Applied.
C22_Witness ==
  /\ DRY_RUN /\ runs = 1 /\ mode = "status" /\ pc = "done"
  /\ Len(auditLog) >= 1 /\ Len(notifier) >= 1 /\ Len(sheetCalls) >= 1
  /\ auditLog[1].status = "Applied"
  /\ sheet[auditLog[1].row - 1].Status = "Not Applied"

\* the sheet row job k of the list returned by read_jobs was numbered with
RowOf(k) == pending_jobs[k]._row_index

\* C23: every job returned by read_jobs carries as _row_index the sheet row
\* of its own row (header 1, first data row 2), also when the filter has
\* dropped earlier rows, and the jobs come in sheet order: the rows numbered
\* are exactly the rows that passed the filter, each with its own URL; and
\* the writeback of a status check goes to the row the job was read from and
\* to no other row.
C23_RowIndexIsOwnRow ==
  (mode = "status" /\ pc # "start") =>
    /\ \A k \in 1..Len(pending_jobs) :
         /\ RowOf(k) \in 2..Len(sheet) + 1
         /\ sheet[RowOf(k) - 1].Job_URL = pending_jobs[k].Job_URL
    /\ \A k, l \in 1..Len(pending_jobs) : k < l => RowOf(k) < RowOf(l)
    /\ \A r \in 1..Len(sheet) :
         /\ (\E k \in 1..Len(pending_jobs) : RowOf(k) = r + 1)
              <=> sheet[r].Status # "Not Applied"
         /\ sheet[r].Last_Checked # ""
              => \E i \in 1..Len(checks) : RowOf(checks[i].job) = r + 1
    /\ \A c \in 1..Len(sheetCalls) : sheetCalls[c].row = RowOf(checks[c].job)

\* C23 witness: the filter dropped the first data row; the job read from the
\* second one carries row 3, and its status change was written to that row.
C23_Witness ==
  /\ mode = "status" /\ ~DRY_RUN /\ pc = "done"
  /\ Len(sheet) = 2 /\ Len(pending_jobs) = 1 /\ RowOf(1) = 3
  /\ sheet[1].Status = "Not Applied" /\ sheet[1].Last_Checked = ""
  /\ sheet[2].Status = "Rejected" /\ sheet[2].Last_Checked = utcnow

\* C24: apply() and platform_session + apply_with_session are equivalent
\* facades for a job of a supported platform: what holds of the one holds of
\* the other.  apply() hands back a Result for every behaviour of the site,
\* a failing or timed-out login included, so no timeout or error of login,
\* navigation or form is ever in flight to the caller of either facade; the
\* Result carries the platform of the attempt and an application id exactly
\* when it is a success; and once a Result is handed back the job record
\* carries that platform.
C24_FacadesEquivalent ==
  /\ pending \notin {"timeout", "error"}
  /\ result # NoResult =>
       /\ result.platform = AttemptPlatform
       /\ result.status = "Applied" <=> HasAutoPrefix(result.application_id)
  /\ \A k \in 1..Len(pending_jobs) : \A r \in ResultsOf(k) :
       pending_jobs[k].platform = r.platform

\* what the threads of the scheduler's pool are doing
Driving == {j \in SchedJobs : workers[j].at = "browser"}
Writing == {j \in SchedJobs : workers[j].at = "write"}

\* C25: apply attempts never overlap.  Inside a run: no browser is open when
\* a browser is launched, and every job attempted before the one whose
\* attempt is beginning or in progress has been handed to writeback, log and
\* notifier.  Across runs: no two workflow runs started by the scheduler
\* drive a browser at the same time, and no two write the sheet at the same
\* time.
C25_NoOverlap ==
  /\ pc \in {"a_launch", "s_launch"} => browser # "open"
  /\ mode = "run" =>
       /\ Len(attempted) - 1 <= Len(notifier) /\ Len(notifier) <= Len(attempted)
       /\ pc \in {"apply", "s_job"} => Len(notifier) = Len(attempted)
  /\ Cardinality(Driving) <= 1
  /\ Cardinality(Writing) <= 1

\* the form driver is at work on a job
DriverAtWork == pc \in {"goto", "applybtn", "form"}

\* the attempt in progress has handed a Result back to its caller
ResultReturned == pc = "process" \/ (mode = "direct" /\ pc = "done")

\* C26: with every wait succeeding or hitting its deadline, the form driver
\* started on a job leads to a Result handed back for that job (Submitted,
\* NoApplyButton, Stuck or the failure Result of an error), and the run or
\* call comes to its end.
C26_AttemptTerminates ==
  /\ DriverAtWork ~> ResultReturned
  /\ <>(pc \in {"done", "raised"})

\* the Result of a submitted application
Submitted ==
  _make_result(TRUE, _timestamp_id, PLATFORM_CONFIG[AttemptPlatform].applied_note,
               AttemptPlatform)

\* C27: on the first form step that finds submit visible the driver uploads
\* the resume (when an upload input is present and the file exists), then
\* fills the cover letter (when a text area is visible), then clicks submit:
\* these and nothing else, in this order; it is the only submit click of the
\* attempt, every earlier step ended in a next click and this one has none;
\* and when the driver returns from the step it returns status Applied with
\* an AUTO_ id and the platform's applied note.
C27_UploadFillThenSubmit ==
  (seen.checked /\ seen.submit) =>
    /\ did = (IF seen.upload THEN <<"upload">> ELSE <<>>)
             \o (IF seen.area THEN <<"fill">> ELSE <<>>)
             \o <<"submit">>
    /\ submitClicks = 1
    /\ nextClicks = step - 1
    /\ result # NoResult =>
         /\ result = Submitted
         /\ result.status = "Applied"
         /\ HasAutoPrefix(result.application_id)

\* C27 witness: the first form step showed an upload input, a text area and
\* submit (no next); the driver uploaded, filled, clicked submit and
\* returned Applied.
C27_Witness ==
  /\ seen.checked /\ seen.submit /\ ~seen.next /\ seen.upload /\ seen.area
  /\ step = 1 /\ did = <<"upload", "fill", "submit">>
  /\ result.status = "Applied"

\* C28: the step that clicks apply and enters the form switches the working
\* page to the last page of the context if and only if the context then
\* holds more than one page; no other step of the driver changes the
\* working page, so the switch happens at most once per attempt and no form
\* step re-selects the page, also when a form click opens another tab.
C28_TabSwitchOnceAfterApply ==
  [][(DriverAtWork /\ pending' # "cancel") =>
       /\ (pc = "applybtn" /\ pc' = "form") =>
            /\ page' # page <=> Len(pages') > 1
            /\ Len(pages') > 1 => page' = Len(pages')
       /\ ~(pc = "applybtn" /\ pc' = "form") => page' = page]_vars

\* C28 witness: the apply click opened a second tab, the driver moved to it
\* and is still on it after a next click.
C28_Witness ==
  /\ pc = "form" /\ step = 2 /\ nextClicks = 1 /\ applyClicked
  /\ Len(pages) = 2 /\ page = 2

\* C29: an attempt interrupted by a timeout or by any other exception hands
\* back a failure Result and raises nothing to its caller: no timeout or
\* error of login, navigation, form or browser close is ever in flight out
\* of an attempt, and every Result with a 'Timeout: ...' or 'Error: ...'
\* note is a failure with an empty application id and the job's platform.
C29_InterruptionBecomesResult ==
  /\ pending \notin {"timeout", "error", "close_timeout", "close_error"}
  /\ \A k \in 1..Len(pending_jobs) : \A r \in ResultsOf(k) :
       r.notes \in {TimeoutNote, ErrorNote} =>
         /\ r.status = "Failed"
         /\ r.application_id = NoId
         /\ r.platform = ClassifyApply(pending_jobs[k])

\* the control positions of _login
InLogin == pc \in {"a_login", "s_login"}
InCheckpointWait == pc \in {"a_checkpoint", "s_checkpoint"}

\* C30: a login whose submission lands on a URL enters the checkpoint wait
\* if and only if the profile declares checkpoint patterns and the URL
\* matches one; entering the wait is no failure (nothing is raised); the
\* login that waits succeeds when the wait sees its URL (the operator
\* resolved the challenge within the deadline) and fails otherwise only by
\* the exception the wait raises, its deadline; a profile with an empty
\* list never enters the wait.
C30_CheckpointSuspends ==
  [][/\ (InLogin /\ landed' # "none") =>
          /\ InCheckpointWait' <=> landed' \in PLATFORM_CONFIG[AttemptPlatform].checkpoint_patterns
          /\ ~InCheckpointWait' => pc' \in {"goto", "s_job"}
          /\ pending' = "none"
     /\ InCheckpointWait' =>
          /\ PLATFORM_CONFIG[AttemptPlatform].checkpoint_patterns # {}
          /\ InLogin \/ InCheckpointWait
     /\ (InCheckpointWait /\ landed' = "resolved") =>
          pc' \in {"goto", "s_job"} /\ pending' = "none"
     /\ (InCheckpointWait /\ landed' # "resolved" /\ pending' # "cancel") =>
          \/ pc' \in {"a_except_timeout", "a_except_error"}
          \/ pc' = "s_close" /\ pending' \in Exceptions]_vars

\* C30 witness: the linkedin login of a session landed on a checkpoint, the
\* wait saw its URL, and the first job of the group is about to be attempted.
C30_Witness ==
  /\ pc = "s_job" /\ landed = "resolved" /\ pending = "none"
  /\ CurPlatform = "linkedin" /\ logins["linkedin"] = 1

\* C31: every browser the program launches to log in to a platform whose
\* profile declares checkpoint patterns is launched headed (headless is
\* false), whichever workflow launches it.
C31_LoginBrowsersHeaded ==
  \A l \in launched :
    PLATFORM_CONFIG[l.platform].checkpoint_patterns # {} => ~l.headless

\* the Results built so far: those handed back for a job and the one
\* _fill_and_submit has just returned
ProducedResults ==
  UNION {ResultsOf(k) : k \in 1..MaxJobs + 1}
    \cup (IF result = NoResult THEN {} ELSE {result})

\* C32: in every Result the program produces the application id is present
\* (AUTO_ followed by a timestamp) exactly when the status is Applied, and is
\* empty on every Failed Result; no Result has any other status.
C32_IdIffSuccess ==
  \A r \in ProducedResults :
    /\ r.status \in {"Applied", "Failed"}
    /\ r.status = "Applied" <=> HasAutoPrefix(r.application_id)
    /\ r.status = "Applied" => r.application_id = _timestamp_id
    /\ r.status = "Failed" => r.application_id = NoId

\* C32 witness: a run with dry-run off has ended with a success Result that
\* carries an id and a failure Result that carries none.
C32_Witness ==
  /\ mode = "run" /\ pc = "done" /\ ~DRY_RUN
  /\ \E r \in ProducedResults : r.status = "Applied" /\ HasAutoPrefix(r.application_id)
  /\ \E r \in ProducedResults : r.status = "Failed" /\ r.application_id = NoId

\* the platform the scheduler's grouping gives job k
PlatformOf(k) == ClassifyGroup(pending_jobs[k])

\* C33: grouping the batch by platform keeps the source order inside each
\* group: the jobs of a group are listed in the order the job source
\* supplied them, and of two attempted jobs of the same platform the earlier
\* one in the source list is attempted first.
C33_OrderKeptWithinGroup ==
  mode = "run" =>
    /\ \A g \in 1..Len(by_platform) :
         \A i, j \in 1..Len(by_platform[g].jobs) :
           i < j => by_platform[g].jobs[i] < by_platform[g].jobs[j]
    /\ \A i, j \in 1..Len(attempted) :
         (i < j /\ PlatformOf(attempted[i]) = PlatformOf(attempted[j]))
           => attempted[i] < attempted[j]

\* C33 witness: a run has ended in which the first and the third job of the
\* source list, of one platform, were attempted in that order after the
\* second job, of another platform, had been grouped apart from them.
C33_Witness ==
  /\ mode = "run" /\ pc = "done"
  /\ batch = 3
  /\ PlatformOf(1) = PlatformOf(3) /\ PlatformOf(2) # PlatformOf(1)
  /\ \E i, j \in 1..Len(attempted) : i < j /\ attempted[i] = 1 /\ attempted[j] = 3

\* apply_with_session is entered for the current job of the group
SessionUsed == frame = "session" /\ pc = "s_job" /\ pc' = "goto"

\* the session of the current group is closed: platform_session is left
SessionClosed == frame = "session" /\ pc = "s_close" /\ pc' # "s_close"

\* the last job of the current group has its Result and has been handed to
\* _process_single_job
LastJobProcessed ==
  /\ ji = Len(by_platform[gi].jobs)
  /\ \A i \in 1..Len(by_platform[gi].jobs) : Len(results[by_platform[gi].jobs[i]]) = 1

\* apply_with_session runs only on a session that is logged in and open, and
\* only for a job of the session's platform
SessionUsedWhileOpen ==
  SessionUsed =>
    /\ browser = "open"
    /\ pending = "none"
    /\ launches[CurPlatform] = 1 /\ logins[CurPlatform] = 1
    /\ ClassifyGroup(CurJob) = CurPlatform
    /\ ClassifyApply(CurJob) = CurPlatform

\* C34 (as claimed): apply_with_session is invoked only on a session whose
\* login completed and which has not been closed, only for jobs of the
\* session's platform, and the session is closed only after the last job of
\* its platform group has been processed.
C34_ClosedOnlyAfterLastJob ==
  [][/\ SessionUsedWhileOpen
     /\ SessionClosed => LastJobProcessed]_vars

\* C34 (amended): as above, except that the session is closed after the last
\* job of its group has been processed or as soon as an exception or an
\* operator interrupt leaves the group, and in the latter case the run ends
\* with the close: no job is attempted on a closed session.
C34_ClosedAfterLastJobOrOnExit ==
  [][/\ SessionUsedWhileOpen
     /\ SessionClosed =>
          /\ browser' = "closed"
          /\ pending' = "none" => LastJobProcessed /\ pc' = "group"
          /\ pending' # "none" => pc' \in {"raised", "cancelled"}]_vars

\* C34 witness: the session of a group of two jobs was closed after both
\* had been processed, and the run went on to the next group.
C34_Witness ==
  /\ mode = "run" /\ frame = "session" /\ pc = "group" /\ gi = 2
  /\ browser = "closed" /\ pending = "none"
  /\ Len(by_platform[1].jobs) = 2
  /\ \A i \in 1..2 : Len(results[by_platform[1].jobs[i]]) = 1

\* the exceptions that leave check_job_status: a failed launch, a failed
\* close in the timeout handler
CheckExceptions == {"launch_error", "close_timeout", "close_error"}

\* C35: a status check that cannot be performed (a URL without linkedin.com,
\* dry-run, a timeout or any other exception during the check) reports the
\* job's current status as new_status: no exception leaves the check, the
\* status in the sheet stays as it was, and no status-change log row or email
\* is made for the job.
C35_FailedCheckKeepsStatus ==
  /\ ~(pc = "raised" /\ pending \in CheckExceptions)
  /\ \A i \in 1..Len(checks) :
       LET job == pending_jobs[checks[i].job]
           row == job._row_index
       IN ~checks[i].performed =>
            /\ checks[i].new_status = job.Status
            /\ sheet[row - 1].Status = job.Status
            /\ ChangesFor(row) = {} /\ MailsFor(row) = {}

\* C36: in a reused session the page on which the driver works through the
\* form of a job shows that job's own apply flow: a tab left open by an
\* earlier job of the session is never the working page of a later job.
C36_WorkingPageShowsOwnJob ==
  (frame = "session" /\ pc = "form") => pages[page] = "job"

\* C37: the status written back to the sheet for a job agrees with the
\* status of its Result: a job whose attempt produced a Failed Result is
\* never recorded as Applied in the sheet.
C37_FailedNeverRecordedApplied ==
  mode = "run" =>
    \A k \in 1..Len(pending_jobs) : \A r \in ResultsOf(k) :
      r.status = "Failed" => sheet[pending_jobs[k]._row_index - 1].Status # "Applied"

\* C38: with dry-run off, a job whose application was submitted (success
\* Result) in one run is never attempted again in a later run, also when the
\* sheet writeback, the audit-log append or a later job of that run failed.
C38_SubmittedNeverRetried ==
  ~DRY_RUN =>
    \A i \in 1..Len(attempted) : pending_jobs[attempted[i]]._row_index \notin submitted

\* the rows whose status a status check has changed away from Applied
ChangedRows == {r \in 1..Len(sheet) : sheet[r].Status \in CardStatuses}

\* scheduled job j reads the sheet and takes its batch
Selects(j) == workers[j].at = "read" /\ workers'[j].at # "read"

\* C39: a job whose status a status check has changed away from Applied is
\* not selected by any later run of either workflow, and its row in the
\* sheet is never changed again.
C39_ChangedRowLeftAlone ==
  [][\A r \in ChangedRows :
       /\ sheet'[r] = sheet[r]
       /\ \A j \in SchedJobs :
            Selects(j) =>
              \A k \in 1..Len(workers'[j].todo) :
                workers'[j].todo[k]._row_index # r + 1]_vars

\* C39 witness: a status-check run that checks one job per run is at work on
\* a job it has selected while another row of the sheet holds the status an
\* earlier status-check run changed it to.
C39_Witness ==
  /\ MAX_STATUS_CHECKS_PER_RUN = 1
  /\ runs = 1
  /\ workers["apply_to_jobs"].at = "idle"
  /\ workers["check_statuses"].at = "write"
  /\ ChangedRows # {}
  /\ Head(workers["check_statuses"].todo)._row_index - 1 \notin ChangedRows

====
